---- MODULE Spec2Model ----
(***************************************************************************)
(* Model of transfer_learning.ipynb: an InceptionV3 base network is built, *)
(* its pretrained weights are loaded, every base layer is frozen, a cut    *)
(* point is selected by name, a classifier head is attached, the composed  *)
(* model is compiled and then trained with model.fit over two cyclic       *)
(* directory iterators.                                                    *)
(*                                                                         *)
(* The notebook is a linear script; pc is the position in it.  The calls   *)
(* into Keras (get_layer, Model, compile, flow_from_directory, fit) are    *)
(* modelled by the documented behaviour of the call as it is written in    *)
(* the notebook.  The hardcoded configuration (cut-point name, step and    *)
(* epoch counts, target sizes, number of images on disk) is drawn from     *)
(* small sets in Init.  The 311-layer InceptionV3 graph is abstracted to a *)
(* small DAG of the same shape: an input layer followed by blocks of two   *)
(* parallel convolution branches joined by a parameterless "mixed" layer.  *)
(***************************************************************************)
EXTENDS Integers, Sequences, FiniteSets, TLC

\* ---------------------------------------------------------------- bounds
NBase == 7          \* number of layers of the abstracted base network
MaxSteps == 2       \* steps_per_epoch ranges over 1..MaxSteps
MaxEpochs == 2      \* epochs ranges over 1..MaxEpochs
MaxValSteps == 2    \* validation_steps ranges over 1..MaxValSteps
MaxW == 1           \* parameter values range over 0..MaxW

\* ------------------------------------------------------ program constants
InputSize == 150    \* input_shape = (150, 150, 3)
BatchSize == 20     \* batch_size = 20
OtherSize == 100    \* a target_size that differs from the input resolution

\* ------------------------------------------------------------ base graph
\* Names of pre_trained_model.layers, in the order of the layer list.
BaseNames ==
  <<"input_1", "conv2d", "conv2d_1", "mixed7", "conv2d_2", "conv2d_3",
    "mixed8", "conv2d_4", "conv2d_5", "mixed9", "conv2d_6", "conv2d_7">>

\* pre_trained_model.layers
BaseIds == 1..NBase

\* Inbound nodes of a base layer: the two branches of a block read the
\* previous block's output, the mixed layer concatenates the two branches.
Inbound(i) ==
  IF i = 1 THEN {}
  ELSE IF (i - 2) % 3 = 0 THEN {i - 1}
  ELSE IF (i - 2) % 3 = 1 THEN {i - 2}
  ELSE {i - 1, i - 2}

\* Layers that own a parameter set (convolutions); input and mixed own none.
BaseHasParams(i) == i > 1 /\ (i - 2) % 3 # 2

\* The classifier head: Flatten, Dense(1024), Dropout(0.2), Dense(1).
FlattenId == NBase + 1
DenseId == NBase + 2
DropoutId == NBase + 3
OutputId == NBase + 4
HeadIds == {FlattenId, DenseId, DropoutId, OutputId}
HeadParamIds == {DenseId, OutputId}

HasParams(i) == IF i \in BaseIds THEN BaseHasParams(i) ELSE i \in HeadParamIds

RECURSIVE Upstream(_)
\* The layers a functional Model reaches when it walks back from a tensor
\* to the input: the layer itself and everything it depends on.
Upstream(i) ==
  IF i \in HeadIds
    THEN IF i = FlattenId THEN {i} ELSE {i} \cup Upstream(i - 1)
    ELSE {i} \cup UNION {Upstream(j) : j \in Inbound(i)}

W == 0..MaxW
NoWeights == -1     \* the (empty) parameter set of a parameterless layer
RandomInit == 0     \* value of a freshly initialised parameter set
FileWeight(i) == IF BaseHasParams(i) THEN 1 ELSE NoWeights

\* ------------------------------------------------------------------ state
VARIABLES
  pc,            \* position in the script
  cfg,           \* the configuration constants of the script
  trainable,     \* layer id -> layer.trainable
  weights,       \* layer id -> value of the layer's parameter set
  last_output,   \* id of the layer whose output is the cut point, 0 = unbound
  model,         \* set of layer ids of the composed model, {} = not built
  compiled,      \* model.compile has run
  trainPos,      \* index of the next batch of train_generator
  valPos,        \* index of the next batch of validation_generator
  runState,      \* "not_started", "running", "finished"
  epoch,         \* epoch being run, 1..epochs (0 before the run)
  phase,         \* "train", "val", "end" inside an epoch
  trainDone,     \* training batches processed in this epoch
  valDone,       \* validation batches processed in this epoch
  trainUpdates,  \* optimizer updates applied so far
  valEvals,      \* validation batches evaluated so far
  logs,          \* metrics of the epoch in progress
  history,       \* history.history
  err,           \* "none", "lookup", "shape"
  acc            \* what the last cell reads from history.history

vars == <<pc, cfg, trainable, weights, last_output, model, compiled, trainPos,
          valPos, runState, epoch, phase, trainDone, valDone, trainUpdates,
          valEvals, logs, history, err, acc>>

\* Cut-point names tried: a convolution branch, the notebook's 'mixed7'
\* (which has layers downstream of it), and a name no layer has.
CutNames == {"conv2d_1", "mixed7", "mixed11"}

\* Images on disk per split: one full batch, or a full and a partial batch.
SampleCounts == {20, 30}
TargetSizes == {InputSize, OtherSize}

Configs ==
  [cut : CutNames,
   steps_per_epoch : 1..MaxSteps,
   epochs : 1..MaxEpochs,
   validation_steps : 1..MaxValSteps,
   train_samples : SampleCounts,
   val_samples : SampleCounts,
   train_size : TargetSizes,
   val_size : TargetSizes]

EmptyLogs == [accuracy |-> 0, val_accuracy |-> 0, loss |-> 0, val_loss |-> 0]
EmptyHistory == [accuracy |-> <<>>, val_accuracy |-> <<>>, loss |-> <<>>,
                 val_loss |-> <<>>]
Series == {"accuracy", "val_accuracy", "loss", "val_loss"}

\* State after InceptionV3(input_shape=(150,150,3), include_top=False,
\* weights=None): randomly initialised parameters, every layer trainable.
Init ==
  /\ pc = "load_weights"
  /\ cfg \in Configs
  /\ trainable = [i \in BaseIds |-> TRUE]
  /\ weights = [i \in BaseIds |-> IF BaseHasParams(i) THEN RandomInit
                                  ELSE NoWeights]
  /\ last_output = 0
  /\ model = {}
  /\ compiled = FALSE
  /\ trainPos = 0
  /\ valPos = 0
  /\ runState = "not_started"
  /\ epoch = 0
  /\ phase = "train"
  /\ trainDone = 0
  /\ valDone = 0
  /\ trainUpdates = 0
  /\ valEvals = 0
  /\ logs = EmptyLogs
  /\ history = EmptyHistory
  /\ err = "none"
  /\ acc = <<>>

\* pre_trained_model.load_weights(local_weights_file)
LoadWeights ==
  /\ pc = "load_weights"
  /\ weights' = [i \in BaseIds |-> FileWeight(i)]
  /\ pc' = "freeze"
  /\ UNCHANGED <<cfg, trainable, last_output, model, compiled, trainPos,
                 valPos, runState, epoch, phase, trainDone, valDone,
                 trainUpdates, valEvals, logs, history, err, acc>>

\* Variant: the loop runs over pre_trained_model.layers[2:].
FreezeTargets_skip_first == {i \in BaseIds : i > 2}

\* for layer in pre_trained_model.layers: layer.trainable = False
FreezeTargets == BaseIds

\* Variant: the loop freezes the input layer only.
FreezeLayers_head_only(tr) ==
  [i \in DOMAIN tr |-> IF i \in FreezeTargets /\ i < 2 THEN FALSE ELSE tr[i]]

\* The freeze loop: the flag of every listed layer object is set in place.
FreezeLayers(tr) ==
  [i \in DOMAIN tr |-> IF i \in FreezeTargets THEN FALSE ELSE tr[i]]

Freeze ==
  /\ pc = "freeze"
  /\ trainable' = FreezeLayers(trainable)
  /\ pc' = "get_layer"
  /\ UNCHANGED <<cfg, weights, last_output, model, compiled, trainPos,
                 valPos, runState, epoch, phase, trainDone, valDone,
                 trainUpdates, valEvals, logs, history, err, acc>>

\* Variant: an unknown name falls back to the last layer of the network.
GetLayerId_fallback(name) ==
  IF \E i \in BaseIds : BaseNames[i] = name
    THEN CHOOSE i \in BaseIds : BaseNames[i] = name
    ELSE NBase

\* pre_trained_model.get_layer(name): the layer of that name, or 0 when no
\* layer has it (get_layer raises ValueError).
GetLayerId(name) ==
  IF \E i \in BaseIds : BaseNames[i] = name
    THEN CHOOSE i \in BaseIds : BaseNames[i] = name
    ELSE 0

\* last_layer = pre_trained_model.get_layer(cut); last_output = its output
GetLayer ==
  /\ pc = "get_layer"
  /\ GetLayerId(cfg.cut) # 0
  /\ last_output' = GetLayerId(cfg.cut)
  /\ pc' = "compose"
  /\ UNCHANGED <<cfg, trainable, weights, model, compiled, trainPos,
                 valPos, runState, epoch, phase, trainDone, valDone,
                 trainUpdates, valEvals, logs, history, err, acc>>

\* The lookup raises; nothing catches it, so the script stops in this cell.
GetLayerFail ==
  /\ pc = "get_layer"
  /\ GetLayerId(cfg.cut) = 0
  /\ err' = "lookup"
  /\ pc' = "error"
  /\ UNCHANGED <<cfg, trainable, weights, last_output, model, compiled,
                 trainPos, valPos, runState, epoch, phase, trainDone,
                 valDone, trainUpdates, valEvals, logs, history, acc>>

\* Variant: the head layers take over the frozen state of the base.
HeadFlags_frozen == [i \in HeadIds |-> FALSE]

\* Flags of the four layers created by the head: a new layer is trainable.
HeadFlags == [i \in HeadIds |-> TRUE]

\* Parameter sets of the new layers: Dense layers are freshly initialised.
HeadWeights == [i \in HeadIds |-> IF i \in HeadParamIds THEN RandomInit
                                  ELSE NoWeights]

\* Variant: composition rebuilds every layer with the default flag.
ComposeFlags_rebuilt(tr) == [i \in BaseIds \cup HeadIds |-> TRUE]

\* Flags of all layer objects once the head layers exist.
ComposeFlags(tr) == tr @@ HeadFlags

\* x = Flatten()(last_output) ... Dense(1, 'sigmoid')(x);
\* model = Model(pre_trained_model.input, x)
ComposeModel ==
  /\ pc = "compose"
  /\ trainable' = ComposeFlags(trainable)
  /\ weights' = weights @@ HeadWeights
  /\ model' = Upstream(last_output) \cup HeadIds
  /\ pc' = "compile"
  /\ UNCHANGED <<cfg, last_output, compiled, trainPos, valPos, runState,
                 epoch, phase, trainDone, valDone, trainUpdates, valEvals,
                 logs, history, err, acc>>

\* model.compile(optimizer=RMSprop(1e-4), loss='binary_crossentropy', ...)
Compile ==
  /\ pc = "compile"
  /\ compiled' = TRUE
  /\ pc' = "generators"
  /\ UNCHANGED <<cfg, trainable, weights, last_output, model, trainPos,
                 valPos, runState, epoch, phase, trainDone, valDone,
                 trainUpdates, valEvals, logs, history, err, acc>>

\* Number of batches one pass over n images yields: ceil(n / batch_size).
NumBatches(n) == (n + BatchSize - 1) \div BatchSize

\* A directory iterator restarts from its first batch after its last one.
NextPos(p, n) == (p + 1) % NumBatches(n)

\* train_generator / validation_generator = flow_from_directory(...)
MakeGenerators ==
  /\ pc = "generators"
  /\ trainPos' = 0
  /\ valPos' = 0
  /\ pc' = "fit"
  /\ UNCHANGED <<cfg, trainable, weights, last_output, model, compiled,
                 runState, epoch, phase, trainDone, valDone, trainUpdates,
                 valEvals, logs, history, err, acc>>

\* Variant: no shape check, any batch is accepted.
ShapeCompatible_any(s) == s \in TargetSizes

\* A batch of target_size (s, s) with 3 channels fits input_shape
\* (150, 150, 3) only when s is the input resolution.
ShapeCompatible(s) == s = InputSize

\* Variant: an epoch starts with its validation batches.
InitialPhase_val == "val"

\* The phase an epoch starts in.
InitialPhase == "train"

\* Variant: the training phase also ends at the end of one pass over the
\* images on disk.
TrainPhaseDone_one_pass(n) ==
  n = cfg.steps_per_epoch \/ n = NumBatches(cfg.train_samples)

\* An epoch's training phase is over after steps_per_epoch batches.
TrainPhaseDone(n) == n = cfg.steps_per_epoch

\* An epoch's validation phase is over after validation_steps batches.
ValPhaseDone(n) == n = cfg.validation_steps

\* The parameter sets an optimizer update writes: the trainable ones of the
\* composed model.
Updatable == {i \in model : HasParams(i) /\ trainable[i]}

HeadSum == weights[DenseId] + weights[OutputId]

\* history = model.fit(...): entry into the epoch loop
FitBegin ==
  /\ pc = "fit"
  /\ runState' = "running"
  /\ epoch' = 1
  /\ phase' = InitialPhase
  /\ trainDone' = 0
  /\ valDone' = 0
  /\ pc' = "running"
  /\ UNCHANGED <<cfg, trainable, weights, last_output, model, compiled,
                 trainPos, valPos, trainUpdates, valEvals, logs, history,
                 err, acc>>

\* One training batch: forward pass, gradient of the loss with respect to
\* the trainable parameters, one optimizer update.
TrainStep ==
  /\ pc = "running"
  /\ phase = "train"
  /\ ShapeCompatible(cfg.train_size)
  /\ \E nw \in [Updatable -> W] :
       weights' = [i \in DOMAIN weights |->
                     IF i \in Updatable THEN nw[i] ELSE weights[i]]
  /\ trainPos' = NextPos(trainPos, cfg.train_samples)
  /\ trainDone' = trainDone + 1
  /\ trainUpdates' = trainUpdates + 1
  /\ logs' = [logs EXCEPT !.loss = weights'[DenseId] + weights'[OutputId]
                                     + trainPos,
                          !.accuracy = weights'[DenseId] + weights'[OutputId]]
  /\ phase' = IF TrainPhaseDone(trainDone + 1) THEN "val" ELSE "train"
  /\ UNCHANGED <<pc, cfg, trainable, last_output, model, compiled, valPos,
                 runState, epoch, valDone, valEvals, history, err, acc>>

\* The forward pass rejects the batch; fit raises and the script stops.
TrainShapeError ==
  /\ pc = "running"
  /\ phase = "train"
  /\ ~ShapeCompatible(cfg.train_size)
  /\ err' = "shape"
  /\ pc' = "error"
  /\ UNCHANGED <<cfg, trainable, weights, last_output, model, compiled,
                 trainPos, valPos, runState, epoch, phase, trainDone,
                 valDone, trainUpdates, valEvals, logs, history, acc>>

\* One validation batch: forward pass and metrics only.
ValStep ==
  /\ pc = "running"
  /\ phase = "val"
  /\ ShapeCompatible(cfg.val_size)
  /\ valPos' = NextPos(valPos, cfg.val_samples)
  /\ valDone' = valDone + 1
  /\ valEvals' = valEvals + 1
  /\ logs' = [logs EXCEPT !.val_loss = HeadSum + valPos,
                          !.val_accuracy = HeadSum]
  /\ phase' = IF ValPhaseDone(valDone + 1) THEN "end" ELSE "val"
  /\ UNCHANGED <<pc, cfg, trainable, weights, last_output, model, compiled,
                 trainPos, runState, epoch, trainDone, trainUpdates, history,
                 err, acc>>

ValShapeError ==
  /\ pc = "running"
  /\ phase = "val"
  /\ ~ShapeCompatible(cfg.val_size)
  /\ err' = "shape"
  /\ pc' = "error"
  /\ UNCHANGED <<cfg, trainable, weights, last_output, model, compiled,
                 trainPos, valPos, runState, epoch, phase, trainDone,
                 valDone, trainUpdates, valEvals, logs, history, acc>>

\* Variant: the callback keeps only the latest epoch.
AppendLogs_overwrite(h, l) == [k \in Series |-> <<l[k]>>]

\* The History callback at the end of an epoch.
AppendLogs(h, l) == [k \in Series |-> Append(h[k], l[k])]

\* End of an epoch: record its metrics, start the next epoch or return.
EpochEnd ==
  /\ pc = "running"
  /\ phase = "end"
  /\ history' = AppendLogs(history, logs)
  /\ IF epoch < cfg.epochs
       THEN /\ epoch' = epoch + 1
            /\ phase' = InitialPhase
            /\ trainDone' = 0
            /\ valDone' = 0
            /\ UNCHANGED <<pc, runState>>
       ELSE /\ runState' = "finished"
            /\ pc' = "plot"
            /\ UNCHANGED <<epoch, phase, trainDone, valDone>>
  /\ UNCHANGED <<cfg, trainable, weights, last_output, model, compiled,
                 trainPos, valPos, trainUpdates, valEvals, logs, err, acc>>

\* acc = history.history['accuracy'] ... epochs = range(len(acc))
ReadHistory ==
  /\ pc = "plot"
  /\ acc' = history.accuracy
  /\ pc' = "done"
  /\ UNCHANGED <<cfg, trainable, weights, last_output, model, compiled,
                 trainPos, valPos, runState, epoch, phase, trainDone,
                 valDone, trainUpdates, valEvals, logs, history, err>>

Next ==
  \/ LoadWeights
  \/ Freeze
  \/ GetLayer
  \/ GetLayerFail
  \/ ComposeModel
  \/ Compile
  \/ MakeGenerators
  \/ FitBegin
  \/ TrainStep
  \/ TrainShapeError
  \/ ValStep
  \/ ValShapeError
  \/ EpochEnd
  \/ ReadHistory

Spec == Init /\ [][Next]_vars

\* The script is one thread that runs every cell to its end: whenever a
\* step is possible, one is eventually taken.
FairSpec == Spec /\ WF_vars(Next)

\* ------------------------------------------------------------- properties
NamesInGraph == {BaseNames[i] : i \in BaseIds}
ParamBase == {i \in BaseIds : BaseHasParams(i)}
IsPrefix(a, b) == Len(a) <= Len(b) /\ SubSeq(b, 1, Len(a)) = a
CompletedEpochs ==
  IF runState = "finished" THEN cfg.epochs
  ELSE IF runState = "running" THEN epoch - 1
  ELSE 0

\* C1: during a training run a step changes a parameter set only if it is a
\* training step and the set belongs to the classifier head; base-network
\* parameters never change and a validation step changes no parameter.
C1_FrozenNeverUpdated ==
  [][runState = "running" =>
       /\ \A i \in DOMAIN weights :
            weights'[i] # weights[i] =>
              /\ i \in HeadParamIds
              /\ phase = "train"
              /\ trainUpdates' = trainUpdates + 1
              /\ valEvals' = valEvals
       /\ valEvals' # valEvals => weights' = weights
       /\ \A i \in BaseIds : weights'[i] = weights[i]]_vars

C1_Witness ==
  /\ runState = "running"
  /\ trainUpdates > 0
  /\ valEvals > 0
  /\ weights[DenseId] # RandomInit
  /\ \E i \in model \cap ParamBase : weights[i] = 1

\* C2: after the freezing step, whatever existing layer is named as the cut
\* point, every layer with a parameter set upstream of it (the cut layer
\* included) has trainable = FALSE.
C2_UpstreamFrozen ==
  pc \notin {"load_weights", "freeze"} =>
    \A c \in BaseIds : \A i \in Upstream(c) :
      i \in ParamBase => trainable[i] = FALSE

C2_Witness ==
  /\ pc = "compose"
  /\ last_output \in BaseIds
  /\ last_output < NBase
  /\ Upstream(last_output) \cap ParamBase # {}
  /\ \A i \in Upstream(last_output) : ~trainable[i]

\* C3: once the composed model is built, every parameter set of the
\* classifier head is trainable although the base layers in it are frozen.
C3_HeadTrainable ==
  model # {} =>
    /\ HeadIds \subseteq model
    /\ \A i \in HeadParamIds : trainable[i] = TRUE
    /\ \A i \in model \cap BaseIds : trainable[i] = FALSE

C3_Witness ==
  /\ pc = "compile"
  /\ trainable[DenseId] /\ trainable[OutputId]
  /\ model \cap ParamBase # {}
  /\ \A i \in model \cap BaseIds : ~trainable[i]

C5_HistoryAppendOnly ==
  /\ [](\A k \in Series : Len(history[k]) = CompletedEpochs)
  /\ [](runState = "finished" =>
          \A k \in Series : Len(history[k]) = cfg.epochs)
  /\ [][\/ history' = history
        \/ \A k \in Series :
             /\ Len(history'[k]) = Len(history[k]) + 1
             /\ IsPrefix(history[k], history'[k])]_vars

C5_Witness ==
  /\ runState = "finished"
  /\ cfg.epochs >= 2
  /\ \A k \in Series : Len(history[k]) = cfg.epochs
  /\ history.loss[1] # history.loss[2]

C7_LookupErrorSurfaces ==
  /\ [](cfg.cut \notin NamesInGraph =>
          /\ pc \in {"load_weights", "freeze", "get_layer", "error"}
          /\ pc = "error" => err = "lookup"
          /\ last_output = 0
          /\ model = {}
          /\ ~compiled
          /\ runState = "not_started"
          /\ trainUpdates = 0
          /\ history = EmptyHistory)
  /\ [][pc = "error" => pc' = "error" /\ model' = model
                        /\ weights' = weights]_vars

C7_Witness ==
  /\ cfg.cut \notin NamesInGraph
  /\ pc = "error"
  /\ err = "lookup"
  /\ \A i \in BaseIds : ~trainable[i]

\* C8: a batch whose size differs from the input resolution is never used
\* for an optimizer update or a validation evaluation; the step that is fed
\* it ends the run with a shape error and leaves every parameter as it was,
\* and such a run does not finish.
C8_ShapeErrorBeforeUpdate ==
  /\ [](/\ cfg.train_size # InputSize => trainUpdates = 0
        /\ cfg.val_size # InputSize => valEvals = 0
        /\ (cfg.train_size # InputSize \/ cfg.val_size # InputSize) =>
             runState # "finished"
        /\ err = "shape" => pc = "error")
  /\ [][err' = "shape" /\ err # "shape" =>
          /\ weights' = weights
          /\ trainUpdates' = trainUpdates
          /\ valEvals' = valEvals
          /\ \/ phase = "train" /\ cfg.train_size # InputSize
             \/ phase = "val" /\ cfg.val_size # InputSize]_vars
  /\ [][/\ trainDone = 0 /\ epoch = 1 /\ pc = "running" /\ phase = "train"
           /\ cfg.train_size # InputSize => err' = "shape"
        /\ valDone = 0 /\ epoch = 1 /\ pc = "running" /\ phase = "val"
           /\ cfg.val_size # InputSize => err' = "shape"]_vars

C8_Witness ==
  /\ err = "shape"
  /\ pc = "error"
  /\ cfg.train_size = InputSize
  /\ cfg.val_size # InputSize
  /\ trainUpdates > 0
  /\ weights[DenseId] # RandomInit

\* C10: from the loaded weights to the start of the run no parameter value
\* changes: freezing rewrites flags of the same layer objects and nothing
\* else, cut-point selection, composition, compilation and the creation of
\* the generators leave the base network's parameters and flags as they are
\* (composition only adds the head's layers), and none of them trains.
C10_NoChangeBeforeTraining ==
  [][(pc \in {"freeze", "get_layer", "compose", "compile", "generators",
              "fit"}) =>
       /\ \A i \in DOMAIN weights : weights'[i] = weights[i]
       /\ (DOMAIN weights) \subseteq (DOMAIN weights')
       /\ (pc = "freeze") =>
            ((DOMAIN trainable') = (DOMAIN trainable) /\ model' = model)
       /\ (pc # "freeze") =>
            (\A i \in BaseIds : trainable'[i] = trainable[i])
       /\ (pc # "compose") => ((DOMAIN weights') = (DOMAIN weights))
       /\ (model' # model) => (model' \cap BaseIds = Upstream(last_output))
       /\ trainUpdates' = trainUpdates
       /\ valEvals' = valEvals
       /\ history' = history]_vars

C10_Witness ==
  /\ pc = "fit"
  /\ compiled
  /\ model # {}
  /\ \A i \in BaseIds : weights[i] = FileWeight(i) /\ ~trainable[i]
  /\ trainUpdates = 0

TypeOK ==
  /\ pc \in {"load_weights", "freeze", "get_layer", "compose", "compile",
             "generators", "fit", "running", "plot", "done", "error"}
  /\ cfg \in Configs
  /\ runState \in {"not_started", "running", "finished"}
  /\ phase \in {"train", "val", "end"}
  /\ err \in {"none", "lookup", "shape"}
  /\ \A i \in DOMAIN weights : weights[i] \in W \cup {NoWeights}

====
